---- MODULE Spec2Model ----
(***************************************************************************)
(* EmoBot (src/main.py): the user store (load_users / save_users), the     *)
(* registration dialogue, the message turn (handle_message) and the        *)
(* follow-up dispatcher (send_followups).                                  *)
(*                                                                         *)
(* Texts are sequences of one-character strings, so that strip(), lower()  *)
(* and the topic extractor are computed as the code computes them.  An     *)
(* optional value (Python None / a missing key, which every read of the    *)
(* code treats alike through dict.get) is the empty tuple, a present value *)
(* x is <<x>>.                                                             *)
(*                                                                         *)
(* Scheduling.  The Application is built with its defaults (main.py:270),  *)
(* so updates are handled one at a time: a handler runs to its end before  *)
(* the next update is dispatched.  Every scheduler firing creates a new    *)
(* task running send_followups (main.py:286); such tasks interleave with   *)
(* the handler in progress, and with each other, at every await.           *)
(* A save opens the file for writing, which truncates it, and then writes  *)
(* the whole mapping (main.py:80-81), on a worker thread: a load that      *)
(* falls between the two reads an empty file and returns {} (main.py:72).  *)
(* Replies of a handler to the user (reply_text) are taken to be           *)
(* delivered; the send of a follow-up may fail, as the code expects        *)
(* (main.py:257-266).                                                      *)
(***************************************************************************)
EXTENDS Naturals, Sequences, FiniteSets, TLC

\* ------------------------------------------------------------------ bounds
MaxUpdates == 4
MaxTurns == 1
MaxChatFailures == 1
MaxTicks == 2
MaxTasks == 2
MaxDay == 1
MaxTextLen == 3        \* length of the enumerated message texts of a turn

\* ------------------------------------------------------- program constants
HISTORY_KEEP == 30
TOPIC_MAX == 120
PROMPT_HISTORY == 8

\* --------------------------------------------------------------- the texts
None == <<>>
Some(x) == <<x>>

Whitespace == {" ", "\n"}

RECURSIVE LStrip(_)
LStrip(s) == IF s # <<>> /\ Head(s) \in Whitespace THEN LStrip(Tail(s)) ELSE s

RECURSIVE RStrip(_)
RStrip(s) ==
    IF s # <<>> /\ s[Len(s)] \in Whitespace
    THEN RStrip(SubSeq(s, 1, Len(s) - 1))
    ELSE s

\* str.strip()
Strip(s) == RStrip(LStrip(s))

UpperToLower ==
    [c \in {"T", "N", "M", "P", "W", "H", "A"} |->
        CASE c = "T" -> "t" [] c = "N" -> "n" [] c = "M" -> "m"
          [] c = "P" -> "p" [] c = "W" -> "w" [] c = "H" -> "h" [] c = "A" -> "a"]

\* str.lower()
Lower(s) == [i \in 1..Len(s) |-> IF s[i] \in DOMAIN UpperToLower THEN UpperToLower[s[i]] ELSE s[i]]

\* s[:n]
Take(s, n) == SubSeq(s, 1, IF Len(s) < n THEN Len(s) ELSE n)

\* s[-n:]
LastN(s, n) == IF Len(s) <= n THEN s ELSE SubSeq(s, Len(s) - n + 1, Len(s))

Contains(s, c) == \E i \in 1..Len(s) : s[i] = c

\* s.split(sep)[0], for a sep that occurs in s
BeforeFirst(s, c) ==
    LET i == CHOOSE k \in 1..Len(s) : s[k] = c /\ \A j \in 1..(k - 1) : s[j] # c
    IN  SubSeq(s, 1, i - 1)

Separators == <<".", "!", "?", "\n">>

RECURSIVE TopicFrom(_, _)
TopicFrom(message, k) ==
    IF k > Len(Separators) THEN Take(Strip(message), TOPIC_MAX)
    ELSE IF Contains(message, Separators[k])
              /\ Strip(BeforeFirst(message, Separators[k])) # <<>>
         THEN Strip(Take(Strip(BeforeFirst(message, Separators[k])), TOPIC_MAX))
         ELSE TopicFrom(message, k + 1)

extract_topic_from_message(message) ==
    IF message = <<>> THEN <<>> ELSE TopicFrom(message, 1)

\* ------------------------------------------------------------ enumerations
Manana == <<"m", "a", "ñ", "a", "n", "a">>
MananaPlain == <<"m", "a", "n", "a", "n", "a">>
Tarde == <<"t", "a", "r", "d", "e">>
Noche == <<"n", "o", "c", "h", "e">>

TIMESLOT_HOUR == (Manana :> 8) @@ (MananaPlain :> 8) @@ (Tarde :> 15) @@ (Noche :> 21)

Peter == <<"P", "e", "t", "e", "r">>
Wuen == <<"W", "u", "e", "n">>
Personalities == {Peter, Wuen}

\* The texts a user sends in this model, by the question they answer: a name
\* with blanks around it; a timeslot written with a capital, one with a blank, and a
\* greeting that is none; the two personas, one with a blank, and a lower-case one that
\* is none; a message with a sentence end.
TextAna == <<" ", "A", "n", "a", " ">>
TextHi == <<"H", "i", ".", "x">>
TextTarde == <<"T", "a", "r", "d", "e">>
TextNoche == <<"n", "o", "c", "h", "e", " ">>
TextWuen == <<"W", "u", "e", "n", " ">>
TextPeterLower == <<"p", "e", "t", "e", "r">>
NameTexts == {TextAna}
TimeTexts == {TextTarde, TextNoche, TextHi}
PersonalityTexts == {Peter, TextWuen, TextPeterLower}
MessageTexts == {TextHi}

Users == {"101", "202"}

\* ------------------------------------------------------ the completion call
\* What openrouter_chat returns: the stripped completion, or one of its two
\* fixed messages (the body has no usable content; the call raised).
ReplyOk == <<"o", "k">>
ReplyBadFormat == <<"L", "o", " ", "s", "i", "e", "n", "t", "o", ",", " ", "t", "u", "v", "e">>
ReplyNoService == <<"L", "o", " ", "s", "i", "e", "n", "t", "o", ",", " ", "n", "o">>
ChatOutcomes == {"ok", "bad_format", "error"}

\* a completion call that hands an empty body on as its reply
openrouter_chat_no_fallback(outcome) ==
    CASE outcome = "ok" -> Strip(ReplyOk)
      [] outcome = "bad_format" -> <<>>
      [] outcome = "error" -> ReplyNoService

openrouter_chat(outcome) ==
    CASE outcome = "ok" -> Strip(ReplyOk)
      [] outcome = "bad_format" -> ReplyBadFormat
      [] outcome = "error" -> ReplyNoService

\* -------------------------------------------------------------- the mapping
\* A users mapping is a sequence of entries in key order (a dict loaded from
\* JSON keeps the order of the file; a new key goes last).
Has(m, u) == \E i \in 1..Len(m) : m[i].uid = u
IndexOf(m, u) == CHOOSE i \in 1..Len(m) : m[i].uid = u
Get(m, u) == m[IndexOf(m, u)].info
Put(m, u, p) ==
    IF Has(m, u) THEN [m EXCEPT ![IndexOf(m, u)].info = p]
    ELSE Append(m, [uid |-> u, info |-> p])
Keys(m) == {m[i].uid : i \in 1..Len(m)}

Turn(r, c) == [role |-> r, content |-> c]

\* a history never cut
KeepAll(history) == history

\* history[-30:]
KeepRecent(history) == LastN(history, HISTORY_KEEP)

\* last_message_date and last_sent_time hold datetime.now(LOCAL_TZ).isoformat();
\* nothing reads them, and the model keeps of them only that they are set.
Stamp == Some("isoformat")

\* a new profile with the persona and the timeslot in each other's place
NewProfileSwapped(name, time, personality) ==
    [name |-> name, time |-> personality, personality |-> time,
     last_topic |-> None, history |-> <<>>, last_sent_date |-> None,
     last_message_date |-> None, last_sent_time |-> None]

\* a new profile, as register_personality builds it
NewProfile(name, time, personality) ==
    [name |-> name, time |-> time, personality |-> personality,
     last_topic |-> None, history |-> <<>>, last_sent_date |-> None,
     last_message_date |-> None, last_sent_time |-> None]

\* ------------------------------------------------------------------- clock
\* The instants (minutes of the day, local time of LOCAL_TZ) at which the
\* model looks at the clock, in order; after the last one the next day begins.
\* 15:10 is in the hour of "tarde".
ClockInstants == <<910>>

\* date.today() is the date of the server's own timezone: the minutes it is
\* ahead of LOCAL_TZ (300: a server on UTC, as a Railway container is).
ServerOffsets == {300}

HourOf(t) == ClockInstants[t.slot] \div 60
ServerDate(t, offset) == t.day + ((ClockInstants[t.slot] + offset) \div 1440)

\* ------------------------------------------------------------------- state
VARIABLES
    file,        \* users.json: data (the mapping last written in full) and
                 \* truncated (opened for writing, not yet written)
    conv,        \* ConversationHandler: the state of each user's dialogue
    user_data,   \* context.user_data of each user
    h,           \* the handler in progress (updates are handled one at a time)
    task,        \* the send_followups tasks
    now,         \* the clock: day and index into ClockInstants
    tz,          \* the server's timezone offset
    update,      \* the update dispatched last: its user and its text
    outbox,      \* the last message the bot delivered: to, kind, text
    sentToday,   \* follow-ups delivered to each user on the current local day
    accepted,    \* users whose persona step was accepted at least once
    nUpdates,    \* updates dispatched so far
    nTurns,      \* message turns of registered users so far
    chatFailuresLeft, \* failures of the completion call still to come
    nTicks,      \* scheduler firings so far
    damage,      \* what has happened to users.json other than the program's saves
    loaded       \* what the call of _load_users_sync observed last did

vars == <<file, conv, user_data, h, task, now, tz, update, outbox, sentToday, accepted,
          nUpdates, nTurns, chatFailuresLeft, nTicks, damage, loaded>>

Tasks == 1..MaxTasks

REGISTER_NAME == "REGISTER_NAME"
REGISTER_TIME == "REGISTER_TIME"
REGISTER_PERSONALITY == "REGISTER_PERSONALITY"
END == "END"

Idle ==
    [kind |-> "idle", pc |-> "idle", then |-> "idle", uid |-> "", text |-> <<>>,
     users |-> <<>>, history |-> <<>>, last_topic |-> <<>>, reply |-> <<>>]

\* A task: its position, its local users, the hour and the date it read, and
\* the loop's index.  seen and attempts are history: what the task loaded of
\* each entry that its test reads, and the sends it tried, in order, each with
\* its user and whether it was delivered.
NoTask ==
    [pc |-> "idle", users |-> <<>>, hour |-> 0, today |-> 0, i |-> 0,
     seen |-> <<>>, attempts |-> <<>>]

Msg(u, k, t) == [to |-> u, kind |-> k, text |-> t]

\* _load_users_sync: the mapping in the file; {} when json.load fails, as it
\* does on a file that a save has truncated and not yet written.
load_users == IF file.truncated THEN <<>> ELSE file.data

\* A store left by an earlier run of the program: one registered user with a
\* full history.
OldHistory ==
    [i \in 1..HISTORY_KEEP |->
        Turn(IF i % 2 = 1 THEN "user" ELSE "assistant", <<"z">>)]
OldStore ==
    << [uid |-> "101",
        info |-> [NewProfile(<<"A", "n", "a">>, Tarde, Peter) EXCEPT
                     !.last_topic = Some(<<"z">>), !.history = OldHistory]] >>
InitStores == {<<>>, OldStore}

\* no call of _load_users_sync observed yet
NotLoaded ==
    [called |-> FALSE, on |-> "none", raised |-> "", mapping |-> TRUE, value |-> <<>>]

InitWith(offsets) ==
    /\ \E m \in InitStores :
          /\ file = [data |-> m, truncated |-> FALSE]
          /\ accepted = [u \in Users |-> Has(m, u)]
    /\ conv = [u \in Users |-> END]
    /\ user_data = [u \in Users |-> [name |-> None, time |-> None, personality |-> None]]
    /\ h = Idle
    /\ task = [k \in Tasks |-> NoTask]
    /\ now = [day |-> 0, slot |-> 1]
    /\ tz \in offsets
    /\ update = [uid |-> "", text |-> <<>>]
    /\ outbox = Msg("", "none", <<>>)
    /\ sentToday = [u \in Users |-> 0]
    /\ nUpdates = 0
    /\ nTurns = 0
    /\ chatFailuresLeft = MaxChatFailures
    /\ nTicks = 0
    /\ damage = "none"
    /\ loaded = NotLoaded

Init == InitWith(ServerOffsets)

\* the completion call ends with `outcome`; its failures are counted
Chat(outcome) ==
    IF outcome = "ok" THEN UNCHANGED chatFailuresLeft
    ELSE /\ chatFailuresLeft > 0
         /\ chatFailuresLeft' = chatFailuresLeft - 1

\* ---------------------------------------------------------------- handlers
\* An update is dispatched only when no handler is in progress.
CanDispatch == h.kind = "idle" /\ nUpdates < MaxUpdates

CmdStart == <<"/", "s", "t", "a", "r", "t">>
CmdAyuda == <<"/", "a", "y", "u", "d", "a">>

\* filters.COMMAND: the text starts with a slash
IsCommand(text) == text # <<>> /\ text[1] = "/"

Dispatched(u, text) ==
    /\ update' = [uid |-> u, text |-> text]
    /\ nUpdates' = nUpdates + 1

\* /start outside a dialogue: the entry point of the ConversationHandler
start(u) ==
    /\ CanDispatch
    /\ conv[u] = END
    /\ conv' = [conv EXCEPT ![u] = REGISTER_NAME]
    /\ outbox' = Msg(u, "ask_name", <<>>)
    /\ Dispatched(u, CmdStart)
    /\ UNCHANGED <<file, user_data, h, task, now, tz, sentToday, accepted,
                   nTurns, chatFailuresLeft, nTicks,
                   damage, loaded>>

\* /start inside a dialogue: no handler of the dialogue's state, no fallback
\* and no later handler takes a /start, so the update is dropped.
start_ignored(u) ==
    /\ CanDispatch
    /\ conv[u] # END
    /\ Dispatched(u, CmdStart)
    /\ UNCHANGED <<file, conv, user_data, h, task, now, tz, outbox, sentToday,
                   accepted, nTurns, chatFailuresLeft, nTicks,
                   damage, loaded>>

register_name(u, text) ==
    /\ CanDispatch
    /\ ~IsCommand(text)
    /\ conv[u] = REGISTER_NAME
    /\ user_data' = [user_data EXCEPT ![u].name = Some(Strip(text))]
    /\ conv' = [conv EXCEPT ![u] = REGISTER_TIME]
    /\ outbox' = Msg(u, "ask_time", <<>>)
    /\ Dispatched(u, text)
    /\ UNCHANGED <<file, h, task, now, tz, sentToday, accepted,
                   nTurns, chatFailuresLeft, nTicks,
                   damage, loaded>>

\* a test of the timeslot that takes every text that is not blank
ValidTimeLoose(text) == Strip(text) # <<>>

\* text.strip().lower() in TIMESLOT_HOUR
ValidTime(text) == Lower(Strip(text)) \in DOMAIN TIMESLOT_HOUR

register_time(u, text) ==
    /\ CanDispatch
    /\ ~IsCommand(text)
    /\ conv[u] = REGISTER_TIME
    /\ IF ~ValidTime(text)
       THEN /\ outbox' = Msg(u, "bad_time", <<>>)
            /\ UNCHANGED <<conv, user_data>>
       ELSE /\ user_data' = [user_data EXCEPT ![u].time = Some(Lower(Strip(text)))]
            /\ conv' = [conv EXCEPT ![u] = REGISTER_PERSONALITY]
            /\ outbox' = Msg(u, "ask_personality", <<>>)
    /\ Dispatched(u, text)
    /\ UNCHANGED <<file, h, task, now, tz, sentToday, accepted,
                   nTurns, chatFailuresLeft, nTicks,
                   damage, loaded>>

\* text.strip() in ("Peter", "Wuen")
ValidPersonality(text) == Strip(text) \in Personalities

\* register_personality up to its save: the test of the input, the load and
\* the new entry of the mapping.
register_personality(u, text) ==
    /\ CanDispatch
    /\ ~IsCommand(text)
    /\ conv[u] = REGISTER_PERSONALITY
    /\ IF ~ValidPersonality(text)
       THEN /\ outbox' = Msg(u, "bad_personality", <<>>)
            /\ UNCHANGED <<user_data, h, accepted>>
       ELSE /\ user_data' = [user_data EXCEPT ![u].personality = Some(Strip(text))]
            /\ h' = [Idle EXCEPT
                       !.kind = "register_personality", !.pc = "truncate",
                       !.then = "reply", !.uid = u, !.text = Strip(text),
                       !.users = Put(load_users, u,
                                     NewProfile(user_data[u].name[1],
                                                user_data[u].time[1], Strip(text)))]
            /\ accepted' = [accepted EXCEPT ![u] = TRUE]
            /\ UNCHANGED outbox
    /\ Dispatched(u, text)
    /\ UNCHANGED <<file, conv, task, now, tz, sentToday, nTurns, chatFailuresLeft, nTicks,
                   damage, loaded>>

\* the user turn of handle_message: history.append, last_topic, history[-30:]
UserTurn(info, text) ==
    [info EXCEPT
        !.last_topic = Some(extract_topic_from_message(text)),
        !.history = KeepRecent(Append(info.history, Turn("user", text))),
        !.last_message_date = Stamp]

\* handle_message up to its first save
handle_message(u, msg) ==
    /\ CanDispatch
    /\ ~IsCommand(msg)
    /\ conv[u] = END
    /\ LET text == Strip(msg)
           users == load_users
       IN  IF ~Has(users, u)
           THEN /\ outbox' = Msg(u, "not_registered", <<>>)
                /\ UNCHANGED <<h, nTurns>>
           ELSE /\ nTurns < MaxTurns
                /\ nTurns' = nTurns + 1
                /\ h' = [Idle EXCEPT
                           !.kind = "handle_message", !.pc = "truncate",
                           !.then = "chat", !.uid = u, !.text = text,
                           !.history = Append(Get(users, u).history, Turn("user", text)),
                           !.last_topic = extract_topic_from_message(text),
                           !.users = Put(users, u, UserTurn(Get(users, u), text))]
                /\ UNCHANGED outbox
    /\ Dispatched(u, msg)
    /\ UNCHANGED <<file, conv, user_data, task, now, tz, sentToday, accepted,
                   chatFailuresLeft, nTicks,
                   damage, loaded>>

\* a help command that ends the dialogue it is sent in
ayuda_ends_dialogue(u) ==
    /\ CanDispatch
    /\ outbox' = Msg(u, "ayuda", <<>>)
    /\ conv' = [conv EXCEPT ![u] = END]
    /\ Dispatched(u, CmdAyuda)
    /\ UNCHANGED <<file, user_data, h, task, now, tz, sentToday, accepted,
                   nTurns, chatFailuresLeft, nTicks,
                   damage, loaded>>

\* /ayuda, as the dialogue's fallback or as the command handler: the callback
\* returns nothing, which leaves the state of a dialogue as it is.
ayuda(u) ==
    /\ CanDispatch
    /\ outbox' = Msg(u, "ayuda", <<>>)
    /\ Dispatched(u, CmdAyuda)
    /\ UNCHANGED <<file, conv, user_data, h, task, now, tz, sentToday, accepted,
                   nTurns, chatFailuresLeft, nTicks,
                   damage, loaded>>

\* _save_users_sync, first half: open(USERS_FILE, "w") empties the file
save_truncate == file' = [file EXCEPT !.truncated = TRUE]

\* _save_users_sync, second half: json.dump writes the whole mapping
save_write(users) == file' = [data |-> users, truncated |-> FALSE]

handler_truncate ==
    /\ h.pc = "truncate"
    /\ save_truncate
    /\ h' = [h EXCEPT !.pc = "write"]
    /\ UNCHANGED <<conv, user_data, task, now, tz, update, outbox, sentToday, accepted,
                   nUpdates, nTurns, chatFailuresLeft, nTicks,
                   damage, loaded>>

\* register_personality after its save: the confirmation, the opening
\* completion, its reply, and the end of the dialogue.  None of these reads or
\* writes the store, so they are taken with the write that precedes them.
register_personality_write(outcome) ==
    /\ h.kind = "register_personality" /\ h.pc = "write"
    /\ Chat(outcome)
    /\ save_write(h.users)
    /\ outbox' = Msg(h.uid, "chat", openrouter_chat(outcome))
    /\ conv' = [conv EXCEPT ![h.uid] = END]
    /\ h' = Idle
    /\ UNCHANGED <<user_data, task, now, tz, update, sentToday, accepted,
                   nUpdates, nTurns, nTicks,
                   damage, loaded>>

\* handle_message: the end of its first save
handle_message_write ==
    /\ h.kind = "handle_message" /\ h.pc = "write" /\ h.then = "chat"
    /\ save_write(h.users)
    /\ h' = [h EXCEPT !.pc = "chat"]
    /\ UNCHANGED <<conv, user_data, task, now, tz, update, outbox, sentToday, accepted,
                   nUpdates, nTurns, chatFailuresLeft, nTicks,
                   damage, loaded>>

\* the assistant turn: history.append, history[-30:]
AssistantTurn(info, reply) ==
    [info EXCEPT !.history = KeepRecent(Append(info.history, Turn("assistant", reply)))]

\* The messages of a request to the completion endpoint (main.py:97-102).
\* The two system prompts are long fixed texts; their first words stand for
\* them.
PromptPeter == <<"E", "r", "e", "s", " ", "P", "e", "t", "e", "r">>
PromptWuen == <<"E", "r", "e", "s", " ", "W", "u", "e", "n">>
SystemPrompt(personality) ==
    IF personality # <<>> /\ Lower(personality)[1] = "p" THEN PromptPeter ELSE PromptWuen

TopicPrefix ==
    <<"Ú", "l", "t", "i", "m", "o", " ", "t", "e", "m", "a", " ", "d", "e",
      "l", " ", "u", "s", "u", "a", "r", "i", "o", ":", " ">>

\* `if last_topic:` and `if history:` take None and the empty value alike
openrouter_messages(user_message, personality, last_topic, history) ==
    <<Turn("system", SystemPrompt(personality))>>
        \o (IF last_topic # <<>> THEN <<Turn("system", TopicPrefix \o last_topic)>> ELSE <<>>)
        \o LastN(history, PROMPT_HISTORY)
        \o <<Turn("user", user_message)>>

\* the request of the message turn in progress: handle_message passes the
\* text, the persona of its first load, the topic, and the list `history`,
\* to which it has appended the user turn (main.py:198-207)
handle_message_request ==
    openrouter_messages(h.text, Get(h.users, h.uid).personality, h.last_topic, h.history)

\* a handle_message that appends the assistant turn to the mapping of its
\* first load
handle_message_chat_no_reload(outcome) ==
    /\ h.kind = "handle_message" /\ h.pc = "chat"
    /\ Chat(outcome)
    /\ LET reply == openrouter_chat(outcome)
       IN  h' = [h EXCEPT
                   !.reply = reply,
                   !.users = Put(h.users, h.uid,
                                 AssistantTurn(Get(h.users, h.uid), reply)),
                   !.pc = "truncate", !.then = "reply"]
    /\ UNCHANGED <<file, conv, user_data, task, now, tz, update, outbox, sentToday,
                   accepted, nUpdates, nTurns, nTicks,
                   damage, loaded>>

\* handle_message: the completion call and the second load; users[uid] raises
\* KeyError when the mapping loaded has no entry for the user, which ends the
\* handler without a reply.
handle_message_chat(outcome) ==
    /\ h.kind = "handle_message" /\ h.pc = "chat"
    /\ Chat(outcome)
    /\ LET reply == openrouter_chat(outcome)
       IN  IF ~Has(load_users, h.uid)
           THEN h' = Idle
           ELSE h' = [h EXCEPT
                        !.reply = reply,
                        !.users = Put(load_users, h.uid,
                                      AssistantTurn(Get(load_users, h.uid), reply)),
                        !.pc = "truncate", !.then = "reply"]
    /\ UNCHANGED <<file, conv, user_data, task, now, tz, update, outbox, sentToday,
                   accepted, nUpdates, nTurns, nTicks,
                   damage, loaded>>

\* handle_message: the end of its second save, and the reply to the user
handle_message_reply ==
    /\ h.kind = "handle_message" /\ h.pc = "write" /\ h.then = "reply"
    /\ save_write(h.users)
    /\ outbox' = Msg(h.uid, "chat", h.reply)
    /\ h' = Idle
    /\ UNCHANGED <<conv, user_data, task, now, tz, update, sentToday, accepted,
                   nUpdates, nTurns, chatFailuresLeft, nTicks,
                   damage, loaded>>

\* -------------------------------------------------------------- dispatcher
\* a test that forgets the date of the last follow-up
EligibleAnyDate(info, hour, today) ==
    /\ info.time # <<>>
    /\ info.time \in DOMAIN TIMESLOT_HOUR
    /\ TIMESLOT_HOUR[info.time] = hour

\* the test of send_followups on one entry (main.py:246-251)
Eligible(info, hour, today) ==
    /\ info.time # <<>>
    /\ info.time \in DOMAIN TIMESLOT_HOUR
    /\ TIMESLOT_HOUR[info.time] = hour
    /\ info.last_sent_date # Some(today)

\* the loop's next entry that is not skipped, from position `from` on; one
\* past the end when there is none
NextEligible(users, from, hour, today) ==
    LET S == {j \in from..Len(users) : Eligible(users[j].info, hour, today)}
    IN  IF S = {} THEN Len(users) + 1
        ELSE CHOOSE j \in S : \A k \in S : j <= k

\* the task at the loop's entry `from`: about to call the completion endpoint
\* for it, or at its end (its locals are dropped)
AtEntry(t, from) ==
    LET j == NextEligible(t.users, from, t.hour, t.today)
    IN  IF j > Len(t.users)
        THEN [t EXCEPT !.pc = "done", !.users = <<>>, !.i = 0]
        ELSE [t EXCEPT !.pc = "chat", !.i = j]

Seen(users) ==
    [j \in 1..Len(users) |->
        [uid |-> users[j].uid, time |-> users[j].info.time,
         last_sent_date |-> users[j].info.last_sent_date]]

\* The scheduler fires: a new task loads the mapping and reads the clock.
\* Tasks have no identity: the new one takes the first free place.
send_followups(k) ==
    /\ nTicks < MaxTicks
    /\ task[k].pc = "idle"
    /\ \A j \in Tasks : j < k => task[j].pc # "idle"
    /\ task' = [task EXCEPT ![k] =
                  AtEntry([NoTask EXCEPT
                             !.users = load_users, !.seen = Seen(load_users),
                             !.hour = HourOf(now), !.today = ServerDate(now, tz)], 1)]
    /\ nTicks' = nTicks + 1
    /\ UNCHANGED <<file, conv, user_data, h, now, tz, update, outbox, sentToday,
                   accepted, nUpdates, nTurns, chatFailuresLeft,
                   damage, loaded>>

\* what the task records for a user after a successful send (main.py:259-262)
MarkSent(info, today, reply) ==
    [info EXCEPT
        !.last_sent_date = Some(today),
        !.last_sent_time = Stamp,
        !.history = KeepRecent(Append(info.history, Turn("assistant", reply)))]

\* a failed send that ends the loop
AbortLoop(t) == [t EXCEPT !.pc = "done", !.users = <<>>, !.i = 0]

\* a failed send is caught and logged inside the loop, which goes on
AfterFailure(t) == AtEntry(t, t.i + 1)

\* The completion call for the entry and bot.send_message, which delivers the
\* text or raises.
followup_send(k, outcome, delivered) ==
    /\ task[k].pc = "chat"
    /\ Chat(outcome)
    /\ LET t == task[k]
           u == t.users[t.i].uid
           reply == openrouter_chat(outcome)
           tried == [t EXCEPT !.attempts =
                        Append(t.attempts, [uid |-> u, delivered |-> delivered])]
       IN  IF delivered
           THEN /\ task' = [task EXCEPT ![k] =
                              [tried EXCEPT
                                 !.users[t.i].info =
                                     MarkSent(t.users[t.i].info, t.today, reply),
                                 !.pc = "truncate"]]
                /\ outbox' = Msg(u, "followup", reply)
                /\ sentToday' = [sentToday EXCEPT ![u] = sentToday[u] + 1]
           ELSE /\ task' = [task EXCEPT ![k] = AfterFailure(tried)]
                /\ UNCHANGED <<outbox, sentToday>>
    /\ UNCHANGED <<file, conv, user_data, h, now, tz, update, accepted,
                   nUpdates, nTurns, nTicks,
                   damage, loaded>>

followup_truncate(k) ==
    /\ task[k].pc = "truncate"
    /\ save_truncate
    /\ task' = [task EXCEPT ![k].pc = "write"]
    /\ UNCHANGED <<conv, user_data, h, now, tz, update, outbox, sentToday, accepted,
                   nUpdates, nTurns, chatFailuresLeft, nTicks,
                   damage, loaded>>

followup_write(k) ==
    /\ task[k].pc = "write"
    /\ save_write(task[k].users)
    /\ task' = [task EXCEPT ![k] = AtEntry(task[k], task[k].i + 1)]
    /\ UNCHANGED <<conv, user_data, h, now, tz, update, outbox, sentToday, accepted,
                   nUpdates, nTurns, chatFailuresLeft, nTicks,
                   damage, loaded>>

\* The task returns.  In the program this is part of the step that ends the
\* loop; it is a step of its own here so that the task's final state can be
\* looked at, and Next lets nothing else happen before it.
followup_return(k) ==
    /\ task[k].pc = "done"
    /\ task' = [task EXCEPT ![k] = NoTask]
    /\ UNCHANGED <<file, conv, user_data, h, now, tz, update, outbox, sentToday,
                   accepted, nUpdates, nTurns, chatFailuresLeft, nTicks,
                   damage, loaded>>

Returning == \E k \in Tasks : task[k].pc = "done"

\* ------------------------------------------------------------------- clock
\* The clock goes on to its next instant.  A handler and a tick take seconds
\* or minutes: what is in progress has ended before the next day begins.
clock_advance ==
    /\ IF now.slot < Len(ClockInstants)
       THEN /\ now' = [now EXCEPT !.slot = now.slot + 1]
            /\ UNCHANGED sentToday
       ELSE /\ now.day < MaxDay
            /\ h.kind = "idle"
            /\ \A k \in Tasks : task[k].pc = "idle"
            /\ now' = [day |-> now.day + 1, slot |-> 1]
            /\ sentToday' = [u \in Users |-> 0]
    /\ UNCHANGED <<file, conv, user_data, h, task, tz, update, outbox, accepted,
                   nUpdates, nTurns, chatFailuresLeft, nTicks,
                   damage, loaded>>

\* ------------------------------------------------------------ specification
Next ==
    \/ \E k \in Tasks : followup_return(k)
    \/ ~Returning /\ \E u \in Users : start(u)
    \/ ~Returning /\ \E u \in Users : start_ignored(u)
    \/ ~Returning /\ \E u \in Users, text \in NameTexts : register_name(u, text)
    \/ ~Returning /\ \E u \in Users, text \in TimeTexts : register_time(u, text)
    \/ ~Returning /\ \E u \in Users, text \in PersonalityTexts : register_personality(u, text)
    \/ ~Returning /\ \E u \in Users, text \in MessageTexts : handle_message(u, text)
    \/ ~Returning /\ \E u \in Users : ayuda(u)
    \/ ~Returning /\ handler_truncate
    \/ ~Returning /\ \E outcome \in ChatOutcomes : register_personality_write(outcome)
    \/ ~Returning /\ handle_message_write
    \/ ~Returning /\ \E outcome \in ChatOutcomes : handle_message_chat(outcome)
    \/ ~Returning /\ handle_message_reply
    \/ ~Returning /\ \E k \in Tasks : send_followups(k)
    \/ ~Returning /\ \E k \in Tasks, outcome \in ChatOutcomes, delivered \in BOOLEAN :
                        followup_send(k, outcome, delivered)
    \/ ~Returning /\ \E k \in Tasks : followup_truncate(k)
    \/ ~Returning /\ \E k \in Tasks : followup_write(k)
    \/ ~Returning /\ clock_advance

Spec == Init /\ [][Next]_vars

\* ----------------------------------------------------- the loader by itself
\* The program creates users.json at startup only (main.py:57-62); from then on
\* nothing of it looks at the file but the loader and the saver.  `damage` is
\* what the file is like when something else has touched it since the last
\* save: removed, not JSON, not UTF-8, or JSON that is not a mapping of users
\* (here the list [1]).  Under Spec the file is never touched: damage stays
\* "none" and load_users above is what the loader returns.
Damages == {"missing", "not_json", "not_utf8", "not_mapping"}

\* what the loader finds: the damage, or a file that a save has emptied and
\* not yet written, or the mapping written last ("none")
FileCondition ==
    IF damage # "none" THEN damage ELSE IF file.truncated THEN "empty" ELSE "none"

Raised(exception) ==
    [called |-> TRUE, on |-> FileCondition, raised |-> exception, mapping |-> FALSE,
     value |-> <<>>]
Returned(isMapping, v) ==
    [called |-> TRUE, on |-> FileCondition, raised |-> "", mapping |-> isMapping, value |-> v]

\* _load_users_sync: open() is outside the try, and the except clause catches
\* json.JSONDecodeError only; whatever json.load returns is returned.
_load_users_sync ==
    CASE damage = "missing"     -> Raised("FileNotFoundError")
      [] damage = "not_utf8"    -> Raised("UnicodeDecodeError")
      [] damage = "not_json"    -> Returned(TRUE, <<>>)
      [] damage = "not_mapping" -> Returned(FALSE, <<1>>)
      [] OTHER                  -> Returned(TRUE, load_users)

\* the mappings a caller saves
SavedStores == InitStores \cup {Put(OldStore, "202", NewProfile(<<"B">>, Noche, Wuen))}

\* something other than the program removes or rewrites the file
file_damaged(kind) ==
    /\ damage' = kind
    /\ UNCHANGED <<file, conv, user_data, h, task, now, tz, update, outbox, sentToday,
                   accepted, nUpdates, nTurns, chatFailuresLeft, nTicks, loaded>>

\* _save_users_sync, first half: open(USERS_FILE, "w") creates the file when it
\* is missing and empties it
store_truncate ==
    /\ ~file.truncated
    /\ save_truncate
    /\ damage' = "none"
    /\ UNCHANGED <<conv, user_data, h, task, now, tz, update, outbox, sentToday,
                   accepted, nUpdates, nTurns, chatFailuresLeft, nTicks, loaded>>

\* _save_users_sync, second half, on the file it opened
store_write(users) ==
    /\ file.truncated
    /\ save_write(users)
    /\ damage' = "none"
    /\ UNCHANGED <<conv, user_data, h, task, now, tz, update, outbox, sentToday,
                   accepted, nUpdates, nTurns, chatFailuresLeft, nTicks, loaded>>

\* a caller awaits load_users(): the executor runs _load_users_sync and what
\* it returns or raises reaches the caller
load_users_called ==
    /\ loaded' = _load_users_sync
    /\ UNCHANGED <<file, conv, user_data, h, task, now, tz, update, outbox, sentToday,
                   accepted, nUpdates, nTurns, chatFailuresLeft, nTicks, damage>>

NextLoad ==
    \/ \E kind \in Damages : file_damaged(kind)
    \/ store_truncate
    \/ \E users \in SavedStores : store_write(users)
    \/ load_users_called

SpecLoad == Init /\ [][NextLoad]_vars

\* ------------------------------------------------------- the turn by itself
\* handle_message alone, on a store with one registered user, for message
\* texts of every shape: all texts of up to MaxTextLen characters over a
\* letter, two of the separators and the blank, some texts with the other
\* separators, and a text longer than the topic may be.  Telegram delivers a
\* text message trimmed and not empty.
TextAlphabet == {"a", ".", "?", " "}
TextHello == <<"H", "e", "l", "l", "o", " ", "t", "h", "e", "r", "e", ".", " ", "H", "o", "w", " ", "a", "r", "e", " ", "y", "o", "u", "?">>
TextBang == <<"a", "!", "b", ".", "c">>
TextLines == <<"a", "\n", "b">>
TextMixed == <<"a", "?", "b", ".", "c">>
TextLong == [i \in 1..(TOPIC_MAX + 5) |-> "a"]
TopicTexts ==
    {t \in UNION {[1..n -> TextAlphabet] : n \in 1..MaxTextLen} : Strip(t) = t}
        \cup {TextHello, TextBang, TextLines, TextMixed, TextLong}

InitTurn == Init /\ file.data = OldStore

NextTurn ==
    \/ \E u \in Users, text \in TopicTexts : handle_message(u, text)
    \/ handler_truncate
    \/ handle_message_write
    \/ \E outcome \in ChatOutcomes : handle_message_chat(outcome)
    \/ handle_message_reply

SpecTurn == InitTurn /\ [][NextTurn]_vars

\* ------------------------------------------------- the dispatcher by itself
\* send_followups alone, on a server of any timezone.  LOCAL_TZ is fixed in the
\* code (main.py:46); the timezone of date.today() is the one of the machine
\* the program runs on.  540: a server nine hours ahead of Lima (UTC+4), where
\* 15:10 in Lima is 00:10 of the next day; a server on UTC is there from 19:00
\* Lima time on, the hour of "noche" included.
FarOffsets == {540}

InitTick == InitWith(ServerOffsets \cup FarOffsets)

NextTick ==
    \/ \E k \in Tasks : followup_return(k)
    \/ ~Returning /\ \E k \in Tasks : send_followups(k)
    \/ ~Returning /\ \E k \in Tasks, outcome \in ChatOutcomes, delivered \in BOOLEAN :
                        followup_send(k, outcome, delivered)
    \/ ~Returning /\ \E k \in Tasks : followup_truncate(k)
    \/ ~Returning /\ \E k \in Tasks : followup_write(k)
    \/ ~Returning /\ clock_advance

SpecTick == InitTick /\ [][NextTick]_vars

\* ------------------------------------------------------------------ claims
\* an update of user u is dispatched in this step
Sent(u) == nUpdates' = nUpdates + 1 /\ update'.uid = u

\* the timeslot enumeration and the two persona labels
TimeslotEnumeration == {Manana, MananaPlain, Tarde, Noche}
PersonaLabels == {Peter, Wuen}

\* the persisted date of the last follow-up of u; absent without a profile
LastSent(m, u) == IF Has(m, u) THEN Get(m, u).last_sent_date ELSE None

\* C1: on one calendar day at most one follow-up is delivered to a user,
\* whatever ticks, message turns and registrations interleave.
C1_AtMostOncePerDay == \A u \in Users : sentToday[u] <= 1

\* C2: a profile in the persisted store is in the store after every step, and
\* a profile is in the store only for a user whose persona step was accepted.
C2_ProfileStaysPersisted ==
    [][\A u \in Users :
          /\ Has(file.data, u) => Has(file'.data, u)
          /\ Has(file'.data, u) => accepted'[u]]_vars

\* C3: every history in the persisted store has at most 30 entries.
C3_HistoryAtMost30 ==
    \A i \in 1..Len(file.data) : Len(file.data[i].info.history) <= 30

\* C3, its case: a full history took a whole message turn, so that its two
\* oldest entries were dropped.
C3_Witness ==
    \E i \in 1..Len(file.data) :
        LET history == file.data[i].info.history
        IN  /\ Len(history) = 30
            /\ history[29] = Turn("user", Strip(TextHi))
            /\ history[30] = Turn("assistant", ReplyOk)

\* C4: the persisted last_sent_date of a user changes only in the save that
\* send_followups makes right after a delivered send to that user.
C4_LastSentOnlyAfterSend ==
    [][\A u \in Users :
          LastSent(file'.data, u) # LastSent(file.data, u)
          => \E k \in Tasks :
                /\ task[k].pc = "write"
                /\ task[k].users[task[k].i].uid = u
                /\ file'.data = task[k].users]_vars

\* C5: the persisted persona and timeslot of a profile never change.
C5_PersonaAndTimeslotFixed ==
    [][\A u \in Users :
          Has(file.data, u) /\ Has(file'.data, u)
          => /\ Get(file'.data, u).personality = Get(file.data, u).personality
             /\ Get(file'.data, u).time = Get(file.data, u).time]_vars

\* C6: /start opens the dialogue at the name; a name leads to the timeslot, a
\* valid timeslot to the persona, and a valid persona to the save of a profile
\* with the name, the timeslot and the persona given, an empty history, no
\* last_topic and no last_sent_date, on which the dialogue ends; the store has
\* no profile of a user whose persona step was not accepted.
C6_Registration ==
    [][\A u \in Users :
          LET text == update'.text
              answer == Sent(u) /\ ~IsCommand(text)
          IN  /\ Sent(u) /\ text = CmdStart /\ conv[u] = END
                 => conv'[u] = REGISTER_NAME
              /\ answer /\ conv[u] = REGISTER_NAME
                 => /\ conv'[u] = REGISTER_TIME
                    /\ user_data'[u].name = <<Strip(text)>>
              /\ answer /\ conv[u] = REGISTER_TIME
                    /\ Lower(Strip(text)) \in TimeslotEnumeration
                 => /\ conv'[u] = REGISTER_PERSONALITY
                    /\ user_data'[u].time = <<Lower(Strip(text))>>
              /\ answer /\ conv[u] = REGISTER_PERSONALITY
                    /\ Strip(text) \in PersonaLabels
                 => /\ h'.kind = "register_personality" /\ h'.uid = u
                    /\ conv'[u] = REGISTER_PERSONALITY
                    /\ user_data'[u].personality = <<Strip(text)>>
                    /\ accepted'[u]
              /\ h.kind = "register_personality" /\ h.uid = u /\ h'.kind = "idle"
                 => /\ conv'[u] = END
                    /\ Has(file'.data, u)
                    /\ Get(file'.data, u) =
                          [name |-> user_data[u].name[1],
                           time |-> user_data[u].time[1],
                           personality |-> Strip(update.text),
                           last_topic |-> <<>>, history |-> <<>>,
                           last_sent_date |-> <<>>,
                           last_message_date |-> <<>>, last_sent_time |-> <<>>]
              /\ Has(file'.data, u) => accepted'[u]]_vars

\* C6, its case: a user without a profile went through the dialogue, which
\* has ended, and the profile is in the store.
C6_Witness ==
    /\ h.kind = "idle"
    /\ update = [uid |-> "202", text |-> TextWuen]
    /\ conv["202"] = END
    /\ outbox.to = "202" /\ outbox.kind = "chat"
    /\ Has(file.data, "202")
    /\ Get(file.data, "202").name = Strip(TextAna)
    /\ Get(file.data, "202").time = Noche
    /\ Get(file.data, "202").personality = Wuen
    /\ Get(file.data, "202").history = <<>>

\* C7: a text that is no timeslot (no persona label) leaves the dialogue in
\* its state, is answered by the prompt again, and changes neither the store
\* nor what the dialogue has collected.
C7_InvalidInputReprompts ==
    [][\A u \in Users :
          LET text == update'.text
              answer == Sent(u) /\ ~IsCommand(text)
          IN  /\ answer /\ conv[u] = REGISTER_TIME
                    /\ Lower(Strip(text)) \notin TimeslotEnumeration
                 => /\ conv' = conv
                    /\ outbox' = Msg(u, "bad_time", <<>>)
                    /\ file' = file /\ user_data' = user_data /\ h' = h
              /\ answer /\ conv[u] = REGISTER_PERSONALITY
                    /\ Strip(text) \notin PersonaLabels
                 => /\ conv' = conv
                    /\ outbox' = Msg(u, "bad_personality", <<>>)
                    /\ file' = file /\ user_data' = user_data /\ h' = h]_vars

\* C7, its case: a lower-case persona was refused, and the user is still asked
\* for the persona and has no profile.
C7_Witness ==
    \E u \in Users :
        /\ update = [uid |-> u, text |-> TextPeterLower]
        /\ outbox = Msg(u, "bad_personality", <<>>)
        /\ conv[u] = REGISTER_PERSONALITY
        /\ ~Has(file.data, u)

\* C8, as the claim states it: the help command in a registration state ends
\* the dialogue and creates no profile.
C8_HelpEndsDialogue ==
    [][\A u \in Users :
          Sent(u) /\ update'.text = CmdAyuda /\ conv[u] # END
          => conv'[u] = END /\ file' = file]_vars

\* C8: the help command in a registration state is answered by the help text
\* and leaves the dialogue in its state, with what it has collected; it
\* creates no profile.
C8_HelpKeepsDialogue ==
    [][\A u \in Users :
          Sent(u) /\ update'.text = CmdAyuda /\ conv[u] # END
          => /\ conv' = conv
             /\ user_data' = user_data
             /\ outbox' = Msg(u, "ayuda", <<>>)
             /\ file' = file /\ accepted' = accepted /\ h' = h]_vars

\* C8, its case: the help text went to a user who is still asked for the
\* timeslot.
C8_Witness ==
    \E u \in Users :
        /\ update = [uid |-> u, text |-> CmdAyuda]
        /\ outbox = Msg(u, "ayuda", <<>>)
        /\ conv[u] = REGISTER_TIME
        /\ user_data[u].name # <<>>

\* the entry e that a tick loaded is due: it has a timeslot, the hour of the
\* tick is the timeslot's hour, and its last_sent_date is not the tick's date
Due(t, e) ==
    /\ e.time # <<>>
    /\ e.time \in TimeslotEnumeration
    /\ TIMESLOT_HOUR[e.time] = t.hour
    /\ e.last_sent_date # <<t.today>>

DueUsers(t) == {t.seen[j].uid : j \in {i \in 1..Len(t.seen) : Due(t, t.seen[i])}}
Attempted(t) == {t.attempts[j].uid : j \in 1..Len(t.attempts)}

\* C9: a tick attempts a send only for the users that are due in what it
\* loaded, and when it ends it has attempted every one of them.
C9_AttemptedExactlyWhenDue ==
    \A k \in Tasks :
        /\ Attempted(task[k]) \subseteq DueUsers(task[k])
        /\ task[k].pc = "done" => Attempted(task[k]) = DueUsers(task[k])

\* C9, its case: a tick on the day after a follow-up has ended with an attempt
\* for the user, in the hour of the user's timeslot.
C9_Witness ==
    \E k \in Tasks :
        /\ task[k].pc = "done"
        /\ task[k].hour = 15
        /\ \E j \in 1..Len(task[k].seen) :
              /\ task[k].seen[j].time = Tarde
              /\ task[k].seen[j].last_sent_date # <<>>
              /\ task[k].seen[j].last_sent_date[1] < task[k].today
              /\ task[k].seen[j].uid \in Attempted(task[k])

\* C10: no tick attempts a send to a user twice, and a tick with two due
\* users that has ended has attempted each of them once, whatever became of
\* the other's send.
C10_OneAttemptEach ==
    \A k \in Tasks :
        LET t == task[k]
            AttemptsOf(u) == {j \in 1..Len(t.attempts) : t.attempts[j].uid = u}
        IN  /\ \A u \in Users : Cardinality(AttemptsOf(u)) <= 1
            /\ t.pc = "done" /\ Cardinality(DueUsers(t)) = 2
               => \A u \in DueUsers(t) : Cardinality(AttemptsOf(u)) = 1

\* C10, its case: a tick with two due users has ended; the send to the first
\* failed and the send to the second was delivered.
C10_Witness ==
    \E k \in Tasks :
        /\ task[k].pc = "done"
        /\ Len(task[k].attempts) = 2
        /\ task[k].attempts[1].uid # task[k].attempts[2].uid
        /\ ~task[k].attempts[1].delivered
        /\ task[k].attempts[2].delivered

\* task k completes a save in this step
TickSaves(k) == task[k].pc = "write" /\ task'[k].pc # "write"

\* the users of the sends of task t that failed
FailedSends(t) == {t.attempts[j].uid : j \in {i \in 1..Len(t.attempts) : ~t.attempts[i].delivered}}

\* C11: a save of a tick leaves the persisted last_sent_date and history of a
\* user unchanged when the tick's send to that user failed.
C11_FailedSendLeavesProfile ==
    [][\A k \in Tasks : \A u \in FailedSends(task[k]) :
          TickSaves(k) /\ Has(file.data, u)
          => /\ Has(file'.data, u)
             /\ Get(file'.data, u).last_sent_date = Get(file.data, u).last_sent_date
             /\ Get(file'.data, u).history = Get(file.data, u).history]_vars

\* the completion call of the message turn in progress fails in this step,
\* and the handler goes on
TurnChatFails ==
    /\ h.kind = "handle_message" /\ h.pc = "chat"
    /\ chatFailuresLeft' < chatFailuresLeft
    /\ h'.kind = "handle_message" /\ h'.pc = "truncate"

LastTurn(m, u) == Get(m, u).history[Len(Get(m, u).history)]

C13_LoadToleratesDamage ==
    (loaded.called /\ loaded.on # "none")
        => loaded.raised = "" /\ loaded.mapping /\ loaded.value = <<>>

\* the text before the earliest of the separators, the whole text when it has
\* none
SeparatorSet == {Separators[k] : k \in 1..Len(Separators)}
BeforeEarliest(s) ==
    IF \E k \in 1..Len(s) : s[k] \in SeparatorSet
    THEN LET i == CHOOSE k \in 1..Len(s) :
                     s[k] \in SeparatorSet /\ \A j \in 1..(k - 1) : s[j] \notin SeparatorSet
         IN  SubSeq(s, 1, i - 1)
    ELSE s

\* C14: for every message text, the topic summary is the text before the
\* earliest occurring character among '.', '!', '?' and newline (the whole
\* text when none occurs), trimmed, and never exceeds 120 characters.
C14_TopicBeforeEarliestSeparator ==
    h.kind = "handle_message"
        => /\ h.last_topic = Strip(Take(Strip(BeforeEarliest(h.text)), TOPIC_MAX))
           /\ Len(h.last_topic) <= TOPIC_MAX

\* C15: the date that send_followups compares last_sent_date against and
\* records as last_sent_date is the calendar date of the local timezone in
\* which the hour is taken: a tick's `today` is the local day, and no date
\* recorded is later than the local day.
C15_TodayIsLocalDate ==
    /\ \A k \in Tasks : task[k].pc # "idle" => task[k].today = now.day
    /\ \A u \in Users :
          Has(file.data, u) =>
              \A d \in 0..(MaxDay + 1) :
                  Get(file.data, u).last_sent_date = Some(d) => d <= now.day

\* C16: the mapping a tick saves for a user is based on a load made after the
\* previous save, so the save never overwrites what other operations
\* persisted for other users earlier during the tick: it leaves the persisted
\* entry of every other user as it is.
C16_SaveKeepsOtherUsers ==
    [][\A k \in Tasks :
          TickSaves(k) =>
              \A v \in Users \ {task[k].users[task[k].i].uid} :
                  /\ Has(file'.data, v) <=> Has(file.data, v)
                  /\ Has(file.data, v) => Get(file'.data, v) = Get(file.data, v)]_vars

\* steps of a message turn: its first save ends, its re-load after the
\* completion call, its second save ends
FirstSaveEnds ==
    /\ h.kind = "handle_message" /\ h.pc = "write" /\ h.then = "chat"
    /\ h'.kind = "handle_message" /\ h'.pc = "chat"
Reloads ==
    /\ h.kind = "handle_message" /\ h.pc = "chat"
    /\ h'.kind = "handle_message" /\ h'.pc = "truncate"
SecondSaveEnds ==
    /\ h.kind = "handle_message" /\ h.pc = "write" /\ h.then = "reply"
    /\ h'.kind = "idle"

\* C17: in handle_message the user turn is persisted before the completion
\* call starts, and the assistant turn is appended to a mapping re-loaded
\* after the call returns: the mapping written by the second save is the
\* mapping persisted at the re-load, every entry as the write completed last
\* left it, with the assistant turn appended to the history of the user.
C17_ReloadKeepsWrites ==
    [][/\ FirstSaveEnds =>
              /\ file'.data = h.users
              /\ LastTurn(file'.data, h.uid) = Turn("user", h.text)
       /\ Reloads =>
              /\ ~file.truncated
              /\ Len(h'.users) = Len(file.data)
              /\ \A v \in Users \ {h.uid} :
                    /\ Has(h'.users, v) <=> Has(file.data, v)
                    /\ Has(file.data, v) => Get(h'.users, v) = Get(file.data, v)
              /\ Has(file.data, h.uid)
              /\ Get(h'.users, h.uid) =
                    [Get(file.data, h.uid) EXCEPT
                        !.history = KeepRecent(Append(@, Turn("assistant", h'.reply)))]
       /\ SecondSaveEnds => file'.data = h.users]_vars

\* a follow-up saved between the first save and the re-load of a turn is in
\* the store after the turn: the user turn, the follow-up, the reply
C17_Witness ==
    /\ h.kind = "idle"
    /\ outbox = Msg("101", "chat", ReplyBadFormat)
    /\ Has(file.data, "101")
    /\ Get(file.data, "101").last_sent_date # None
    /\ LET hist == Get(file.data, "101").history
           n == Len(hist)
       IN  /\ n >= 3
           /\ hist[n - 2] = Turn("user", Strip(TextHi))
           /\ hist[n - 1] = Turn("assistant", ReplyOk)
           /\ hist[n] = Turn("assistant", ReplyBadFormat)

\* C18: every message turn started by a registered user ends with a reply
\* sent to that user: handle_message ends only by its second save and the
\* reply, never between its first save and the reply.
C18_TurnEndsWithReply ==
    [][(h.kind = "handle_message" /\ h'.kind = "idle")
          => /\ h.pc = "write" /\ h.then = "reply"
             /\ outbox' = Msg(h.uid, "chat", h.reply)]_vars

\* the mappings of the saves in progress: the file is open, not yet written
BeingSaved ==
    (IF h.pc = "write" THEN {h.users} ELSE {})
        \cup {task[j].users : j \in {i \in Tasks : task[i].pc = "write"}}

\* C19: a load_users that runs concurrently with a save_users returns either
\* the mapping stored before that save or the mapping being saved, never an
\* empty or partial one: what a tick loads is the mapping written last or
\* the mapping of a save in progress.
C19_LoadNeverTorn ==
    [][\A k \in Tasks :
          (task[k].pc = "idle" /\ task'[k].pc # "idle")
              => task'[k].seen \in {Seen(m) : m \in {file.data} \cup BeingSaved}]_vars

\* the history of the user before the turn in progress
PriorHistory == SubSeq(h.history, 1, Len(h.history) - 1)

\* C20: the message list sent to the completion endpoint for a message turn
\* is, in order, the persona system message, the last-topic system message
\* when a topic is present, at most 8 most recent history turns, then the new
\* user message, which occurs in the list exactly once.
C20_RequestHoldsMessageOnce ==
    (h.kind = "handle_message" /\ h.pc = "chat")
        => /\ handle_message_request =
                 <<Turn("system", SystemPrompt(Get(h.users, h.uid).personality))>>
                     \o (IF h.last_topic # <<>>
                         THEN <<Turn("system", TopicPrefix \o h.last_topic)>> ELSE <<>>)
                     \o LastN(PriorHistory, PROMPT_HISTORY)
                     \o <<Turn("user", h.text)>>
           /\ (\A i \in 1..Len(PriorHistory) : PriorHistory[i] # Turn("user", h.text))
                 => Cardinality({i \in 1..Len(handle_message_request) :
                                    handle_message_request[i] = Turn("user", h.text)}) = 1
====
